---- MODULE Spec2Model ----
(***************************************************************************)
(* Model of scripts/build_docs_index.py: the frontmatter parser, the title *)
(* inferrer, the index builder and the writer of docs/skills.json.         *)
(*                                                                         *)
(* A Python str is a sequence of one-character strings, so that trimming,  *)
(* splitting, joining and comparing are computed as the code computes them.*)
(***************************************************************************)
EXTENDS Integers, Sequences, FiniteSets, TLC

VARIABLES
    pc,        \* position of the running call
    text,      \* parse_frontmatter: its argument
    parsed,    \* parse_frontmatter: the returned (frontmatter, content) pair
    path,      \* infer_title_from_markdown: file name and state of its argument
    title,     \* infer_title_from_markdown: the returned str
    fs,        \* the root directory: entry name -> entry
    caller,    \* who called build_index: "main" or "direct"
    entries,   \* build_index: sorted(root.iterdir()), as names
    idx,       \* build_index: position of the for loop in entries
    skills,    \* build_index: the accumulated list
    written    \* content of docs/skills.json after each completed run of main

vars == <<pc, text, parsed, path, title, fs, caller, entries, idx, skills, written>>

(***************************************************************************)
(* Bounds of the model.                                                    *)
(***************************************************************************)
MaxLines == 4
MaxFileLines == 2
MaxEntries == 2
MaxRefs == 3
MaxRuns == 2

(***************************************************************************)
(* Python str primitives.                                                  *)
(***************************************************************************)
Range(s) == {s[i] : i \in 1..Len(s)}

\* The characters str.strip() removes (those that occur in the model).
Whitespace == {" ", "\t", "\n", "\r"}

\* The line boundaries of str.splitlines() (those that occur in the model).
LineBreaks == {"\n", "\r"}

RECURSIVE lstrip(_, _)
lstrip(s, chars) ==
    IF s # <<>> /\ Head(s) \in chars THEN lstrip(Tail(s), chars) ELSE s

RECURSIVE rstrip(_, _)
rstrip(s, chars) ==
    IF s # <<>> /\ s[Len(s)] \in chars
    THEN rstrip(SubSeq(s, 1, Len(s) - 1), chars)
    ELSE s

\* s.strip(chars)
strip_chars(s, chars) == rstrip(lstrip(s, chars), chars)

\* s.strip()
strip(s) == strip_chars(s, Whitespace)

\* s.startswith(prefix)
startswith(s, prefix) ==
    /\ Len(prefix) <= Len(s)
    /\ SubSeq(s, 1, Len(prefix)) = prefix

\* s.endswith(suffix)
endswith(s, suffix) ==
    /\ Len(suffix) <= Len(s)
    /\ SubSeq(s, Len(s) - Len(suffix) + 1, Len(s)) = suffix

\* s.find(c) + 1 for a character out of chars: 0 when there is none.
find(s, chars) ==
    IF \E i \in 1..Len(s) : s[i] \in chars
    THEN CHOOSE i \in 1..Len(s) :
             /\ s[i] \in chars
             /\ \A j \in 1..(i - 1) : s[j] \notin chars
    ELSE 0

\* s.rfind(c) + 1
rfind(s, chars) ==
    IF \E i \in 1..Len(s) : s[i] \in chars
    THEN CHOOSE i \in 1..Len(s) :
             /\ s[i] \in chars
             /\ \A j \in (i + 1)..Len(s) : s[j] \notin chars
    ELSE 0

\* s.splitlines(): "\r\n" is one boundary, and a final boundary opens no line.
RECURSIVE splitlines(_)
splitlines(s) ==
    IF s = <<>> THEN <<>>
    ELSE LET i == find(s, LineBreaks)
         IN  IF i = 0 THEN <<s>>
             ELSE LET j == IF s[i] = "\r" /\ i < Len(s) /\ s[i + 1] = "\n"
                           THEN i + 1 ELSE i
                  IN  <<SubSeq(s, 1, i - 1)>> \o splitlines(SubSeq(s, j + 1, Len(s)))

\* sep.join(parts)
RECURSIVE join(_, _)
join(sep, parts) ==
    IF parts = <<>> THEN <<>>
    ELSE IF Len(parts) = 1 THEN parts[1]
    ELSE parts[1] \o sep \o join(sep, Tail(parts))

\* split_colon, had the code split on the last colon (line.rsplit(":", 1)).
split_colon_last(line) ==
    LET i == rfind(line, {":"})
    IN  [key |-> SubSeq(line, 1, i - 1), value |-> SubSeq(line, i + 1, Len(line))]

\* line.split(":", 1), for a line that holds a colon
split_colon(line) ==
    LET i == find(line, {":"})
    IN  [key |-> SubSeq(line, 1, i - 1), value |-> SubSeq(line, i + 1, Len(line))]

(***************************************************************************)
(* dict: a function from keys to values.                                   *)
(***************************************************************************)
EmptyDict == [k \in {} |-> <<>>]

\* d[key] = value
setitem(d, key, value) ==
    [k \in DOMAIN d \cup {key} |-> IF k = key THEN value ELSE d[k]]

\* d.get(key, default)
get(d, key, default) == IF key \in DOMAIN d THEN d[key] ELSE default

(***************************************************************************)
(* parse_frontmatter                                                       *)
(***************************************************************************)
Delimiter == <<"-","-","-">>

\* find_end_index, had the loop no break: the last delimiter line wins.
find_end_index_last(lines, i) ==
    LET ends == {j \in i..Len(lines) : strip(lines[j]) = Delimiter}
    IN  IF ends = {} THEN 0 ELSE CHOOSE j \in ends : \A k \in ends : k <= j

\* The loop of lines 17-20, from Python index i on: the TLA+ index of the
\* first line that is the delimiter once stripped, 0 for end_index = None.
RECURSIVE find_end_index(_, _)
find_end_index(lines, i) ==
    IF i > Len(lines) THEN 0
    ELSE IF strip(lines[i]) = Delimiter THEN i
    ELSE find_end_index(lines, i + 1)

\* The value a header line gives its key (line 33).
header_value(value) == strip_chars(strip(value), {"\""})

\* The loop of lines 29-33 over frontmatter_lines.
RECURSIVE header_loop(_, _)
header_loop(frontmatter_lines, frontmatter) ==
    IF frontmatter_lines = <<>> THEN frontmatter
    ELSE LET line == Head(frontmatter_lines)
         IN  IF ":" \notin Range(line)
             THEN header_loop(Tail(frontmatter_lines), frontmatter)
             ELSE LET kv == split_colon(line)
                  IN  header_loop(Tail(frontmatter_lines),
                                  setitem(frontmatter, strip(kv.key),
                                          header_value(kv.value)))

parse_frontmatter(t) ==
    IF ~startswith(t, Delimiter)
    THEN [frontmatter |-> EmptyDict, content |-> t]
    ELSE LET lines == splitlines(t)
             end_index == find_end_index(lines, 2)
         IN  IF end_index = 0
             THEN [frontmatter |-> EmptyDict, content |-> t]
             ELSE [frontmatter |->
                       header_loop(SubSeq(lines, 2, end_index - 1), EmptyDict),
                   content |->
                       join(<<"\n">>, SubSeq(lines, end_index + 1, Len(lines)))]

(***************************************************************************)
(* The texts parse_frontmatter is called on: up to MaxLines lines out of   *)
(* HeaderLines, joined by newlines, with or without a final line break.    *)
(***************************************************************************)
HeaderLines ==
    { <<"-","-","-">>, <<" ","-","-","-"," ">>, <<"-","-","-","-">>, <<>>,
      <<"n","a","m","e",":"," ","\"","F","o","o","\"">>, <<"n","a","m","e",":","B","a","r">>, <<"B","o","d","y"," ","t","e","x","t">>,
      <<"a"," ",":"," ","b",":","c">>, <<"k",":"," ","a"," ","\"","b","\"">> }

SeqsUpTo(S, n) == UNION {[1..m -> S] : m \in 0..n}

Texts ==
    {join(<<"\n">>, ls) \o tail : ls \in SeqsUpTo(HeaderLines, MaxLines),
                                  tail \in {<<>>, <<"\n">>, <<"\r", "\n">>}}

NoParse == [frontmatter |-> EmptyDict, content |-> <<>>]

InitParse ==
    /\ pc = "parse"
    /\ text \in Texts
    /\ parsed = NoParse
    /\ path = <<>>
    /\ title = <<>>
    /\ fs = EmptyDict
    /\ caller = "direct"
    /\ entries = <<>>
    /\ idx = 0
    /\ skills = <<>>
    /\ written = <<>>

ParseFrontmatter ==
    /\ pc = "parse"
    /\ parsed' = parse_frontmatter(text)
    /\ pc' = "parsed"
    /\ UNCHANGED <<text, path, title, fs, caller, entries, idx, skills, written>>

NextParse == ParseFrontmatter

SpecParse == InitParse /\ [][NextParse]_vars

(***************************************************************************)
(* Properties of parse_frontmatter.                                        *)
(***************************************************************************)
Quote == "\""

\* The lines of the text, and those after the first that are the delimiter
\* once trimmed.
Lines(t) == splitlines(t)
Closings(t) == {i \in 2..Len(Lines(t)) : strip(Lines(t)[i]) = Delimiter}
FirstClosing(t) == CHOOSE i \in Closings(t) : \A j \in Closings(t) : i <= j

\* The text opens with a delimiter line: its first line is --- once trimmed.
OpensWithDelimiterLine(t) == Lines(t) # <<>> /\ strip(Lines(t)[1]) = Delimiter

\* A complete header block: an opening delimiter line and a later closing one.
HasHeaderBlock(t) == OpensWithDelimiterLine(t) /\ Closings(t) # {}

\* The branch of parse_frontmatter that returns a header (lines 25-35).
SuccessBranch(t) == startswith(t, Delimiter) /\ Closings(t) # {}

\* The indices of the header lines that hold a colon, and what each gives.
HeaderIndices(t) == {i \in 2..(FirstClosing(t) - 1) : ":" \in Range(Lines(t)[i])}
FirstColon(line) == CHOOSE i \in 1..Len(line) :
                        line[i] = ":" /\ \A j \in 1..(i - 1) : line[j] # ":"
KeyOf(line) == strip(SubSeq(line, 1, FirstColon(line) - 1))
RawValueOf(line) == SubSeq(line, FirstColon(line) + 1, Len(line))

\* One layer of double quotes removed, and only when present on both ends.
UnquoteOneLayer(s) ==
    IF Len(s) >= 2 /\ s[1] = Quote /\ s[Len(s)] = Quote
    THEN SubSeq(s, 2, Len(s) - 1)
    ELSE s

\* Equal up to the double quotes around them.
SameUnquoted(a, b) == strip_chars(a, {Quote}) = strip_chars(b, {Quote})

\* The last header line that gives key k.
LastIndexOf(t, k) ==
    CHOOSE i \in HeaderIndices(t) :
        /\ KeyOf(Lines(t)[i]) = k
        /\ \A j \in HeaderIndices(t) : KeyOf(Lines(t)[j]) = k => j <= i

\* C4: every header value is the text after the first colon, trimmed, with
\* exactly one layer of surrounding double quotes removed and only when a
\* double quote stands on both ends; a value quoted on one end only, or in
\* several layers, keeps its remaining quotes.
C4_OneLayerUnquoted ==
    (pc = "parsed" /\ SuccessBranch(text)) =>
        \A k \in DOMAIN parsed.frontmatter :
            parsed.frontmatter[k] =
                UnquoteOneLayer(strip(RawValueOf(Lines(text)[LastIndexOf(text, k)])))

C6_NoHeaderGivesTextBack ==
    (pc = "parsed" /\ ~HasHeaderBlock(text)) =>
        /\ parsed.frontmatter = EmptyDict
        /\ parsed.content = text

\* The round-trip example of the specification.
ExampleText == <<"-","-","-","\n","n","a","m","e",":"," ","\"","F","o","o","\"","\n","-","-","-","\n","B","o","d","y"," ","t","e","x","t">>

\* C7: in the success branch the closing delimiter is the first later line
\* that is --- once trimmed, and the body is the lines after it joined by
\* newlines: no header line and neither delimiter is in it, later --- lines
\* are; the example's body is exactly Body text.
C7_BodyAfterFirstClosing ==
    (pc = "parsed" /\ SuccessBranch(text)) =>
        LET e == FirstClosing(text)
            rest == SubSeq(Lines(text), e + 1, Len(Lines(text)))
        IN  /\ parsed.content = join(<<"\n">>, rest)
            /\ \A i \in Closings(text) \ {e} :
                   \E n \in 1..Len(splitlines(parsed.content)) :
                       strip(splitlines(parsed.content)[n]) = Delimiter
            /\ text = ExampleText =>
                   /\ parsed.content = <<"B","o","d","y"," ","t","e","x","t">>
                   /\ parsed.frontmatter = [k \in {<<"n","a","m","e">>} |-> <<"F","o","o">>]

\* A header closed by the first of two delimiter lines, with a body.
C7_Witness ==
    /\ pc = "parsed"
    /\ SuccessBranch(text)
    /\ Cardinality(Closings(text)) >= 2
    /\ FirstClosing(text) > 2
    /\ parsed.content # <<>>

(***************************************************************************)
(* More str primitives: ord, replace, title; Path.stem.                    *)
(***************************************************************************)
\* The printable ASCII characters (but the grave accent) in code point
\* order: ord(c) orders them as their code points do.
Ascii == <<" ","!","\"","#","$","%","&","'","(",")","*","+",",","-",".","/","0","1","2","3","4","5","6","7","8","9",":",";","<","=",">","?","@","A","B","C","D","E","F","G","H","I","J","K","L","M","N","O","P","Q","R","S","T","U","V","W","X","Y","Z","[","\\","]","^","_","a","b","c","d","e","f","g","h","i","j","k","l","m","n","o","p","q","r","s","t","u","v","w","x","y","z","{","|","}","~">>

ord(c) == CHOOSE i \in 1..Len(Ascii) : Ascii[i] = c

isupper(c) == c \in Range(Ascii) /\ ord(c) \in ord("A")..ord("Z")
islower(c) == c \in Range(Ascii) /\ ord(c) \in ord("a")..ord("z")
upper(c) == IF islower(c) THEN Ascii[ord(c) - (ord("a") - ord("A"))] ELSE c
lower(c) == IF isupper(c) THEN Ascii[ord(c) + (ord("a") - ord("A"))] ELSE c

\* a < b for two str: by code point, a proper prefix first.
RECURSIVE str_less(_, _)
str_less(a, b) ==
    IF b = <<>> THEN FALSE
    ELSE IF a = <<>> THEN TRUE
    ELSE IF Head(a) = Head(b) THEN str_less(Tail(a), Tail(b))
    ELSE ord(Head(a)) < ord(Head(b))

\* s.replace(old, new) for single characters
replace_all(s, old, new) == [i \in 1..Len(s) |-> IF s[i] = old THEN new ELSE s[i]]

\* s.replace(old, "", 1): the first occurrence of old removed
replace_first(s, old) ==
    LET at == {i \in 1..(Len(s) - Len(old) + 1) : SubSeq(s, i, i + Len(old) - 1) = old}
    IN  IF at = {} THEN s
        ELSE LET i == CHOOSE i \in at : \A j \in at : i <= j
             IN  SubSeq(s, 1, i - 1) \o SubSeq(s, i + Len(old), Len(s))

\* s.title(): a cased character is upper case after an uncased one and
\* lower case after a cased one.
RECURSIVE title_loop(_, _)
title_loop(s, previous_is_cased) ==
    IF s = <<>> THEN <<>>
    ELSE LET c == Head(s)
         IN  IF islower(c) \/ isupper(c)
             THEN <<IF previous_is_cased THEN lower(c) ELSE upper(c)>>
                      \o title_loop(Tail(s), TRUE)
             ELSE <<c>> \o title_loop(Tail(s), FALSE)

str_title(s) == title_loop(s, FALSE)

\* Path.stem: the name without its last suffix; a dot that starts or ends
\* the name starts no suffix.
stem(name) ==
    LET i == rfind(name, {"."})
    IN  IF 1 < i /\ i < Len(name) THEN SubSeq(name, 1, i - 1) ELSE name

(***************************************************************************)
(* The file system: a node is a regular file with its content, a directory *)
(* with its children (name -> node), or a symbolic link to nothing.        *)
(***************************************************************************)
\* content is what read_text() returns: the text with "\n" for every line end.
File(content) == [kind |-> "file", content |-> content, children |-> EmptyDict]
Dir(children) == [kind |-> "dir", content |-> <<>>, children |-> children]
Dangling == [kind |-> "dangling", content |-> <<>>, children |-> EmptyDict]

\* A directory with the given children, listed as <<name, node>> pairs.
DirOf(pairs) ==
    Dir([n \in {p[1] : p \in pairs} |-> (CHOOSE p \in pairs : p[1] = n)[2]])

\* (dir / name).exists(), .is_dir(): both follow symbolic links.
exists(dir, name) ==
    dir.kind = "dir" /\ name \in DOMAIN dir.children /\ dir.children[name].kind # "dangling"
is_dir(node) == node.kind = "dir"

\* path.read_text() raises IsADirectoryError on a directory; on a dangling
\* link it raises FileNotFoundError, which infer_title_from_markdown catches.
read_raises(node) == node.kind = "dir"

(***************************************************************************)
(* infer_title_from_markdown                                               *)
(***************************************************************************)
HeadingPrefix == <<"#"," ">>

\* Line 46 and line 48.
fallback_title(name) == str_title(replace_all(stem(name), "-", " "))

\* is_heading, had the code tested for "#" alone.
is_heading_any_level(line) == startswith(line, <<"#">>)

\* Line 43, on the stripped line.
is_heading(line) == startswith(line, HeadingPrefix)

\* The loop of lines 41-44: <<TRUE, title>> on return, <<FALSE, _>> at its end.
RECURSIVE title_scan(_)
title_scan(lines) ==
    IF lines = <<>> THEN <<FALSE, <<>>>>
    ELSE LET line == strip(Head(lines))
         IN  IF is_heading(line)
             THEN <<TRUE, strip(replace_first(line, HeadingPrefix))>>
             ELSE title_scan(Tail(lines))

\* name is path.name, node the file at path (a regular file or Dangling).
infer_title_from_markdown(name, node) ==
    IF node.kind = "dangling" THEN fallback_title(name)
    ELSE LET found == title_scan(splitlines(node.content))
         IN  IF found[1] THEN found[2] ELSE fallback_title(name)

(***************************************************************************)
(* The files infer_title_from_markdown is called on.                       *)
(***************************************************************************)
TitleLines ==
    { <<"#"," ","H","e","l","l","o"," ","W","o","r","l","d">>, <<"m","o","r","e"," ","t","e","x","t">>, <<" "," ","#"," "," ","T"," ","t"," "," ">>, <<"#","x">>, <<"#"," ","#"," ","a">>, <<>>, <<"#"," ">> }

TitleNames ==
    { <<"m","y","-","s","k","i","l","l","-","n","a","m","e",".","m","d">>, <<"o","n","e",".","m","d">>, <<"a",".","b",".","m","d">>, <<"R","E","A","D","m","e","-","x","1","y",".","m","d">>, <<".","m","d">>, <<"x",".">> }

TitleFiles ==
    {File(join(<<"\n">>, ls) \o tail) : ls \in SeqsUpTo(TitleLines, MaxFileLines),
                                        tail \in {<<>>, <<"\n">>}}
        \cup {Dangling}

NoPath == [name |-> <<>>, node |-> Dangling]

InitTitle ==
    /\ pc = "title"
    /\ path \in [name : TitleNames, node : TitleFiles]
    /\ title = <<>>
    /\ text = <<>>
    /\ parsed = NoParse
    /\ fs = EmptyDict
    /\ caller = "direct"
    /\ entries = <<>>
    /\ idx = 0
    /\ skills = <<>>
    /\ written = <<>>

InferTitle ==
    /\ pc = "title"
    /\ title' = infer_title_from_markdown(path.name, path.node)
    /\ pc' = "titled"
    /\ UNCHANGED <<text, parsed, path, fs, caller, entries, idx, skills, written>>

NextTitle == InferTitle

SpecTitle == InitTitle /\ [][NextTitle]_vars

\* The stripped lines of the file that begin with the heading prefix.
HeadingLines(node) ==
    IF node.kind # "file" THEN {}
    ELSE {i \in 1..Len(Lines(node.content)) :
              LET l == strip(Lines(node.content)[i])
              IN  Len(l) >= 2 /\ l[1] = "#" /\ l[2] = " "}

\* C10: for an existing file the title is its first line that, once trimmed,
\* begins with "# ", without that prefix and trimmed; for a missing file, or
\* a file with no such line, it is the base name with hyphens as spaces,
\* title-cased (my-skill-name.md gives My Skill Name).
C10_TitleOfFile ==
    pc = "titled" =>
        /\ HeadingLines(path.node) # {} =>
               LET i == CHOOSE i \in HeadingLines(path.node) :
                            \A j \in HeadingLines(path.node) : i <= j
                   l == strip(Lines(path.node.content)[i])
               IN  title = strip(SubSeq(l, 3, Len(l)))
        /\ HeadingLines(path.node) = {} =>
               /\ title = str_title(replace_all(stem(path.name), "-", " "))
               /\ Len(title) = Len(stem(path.name))
               /\ "-" \notin Range(title)
               /\ \A i \in 1..Len(title) :
                      islower(title[i]) => i > 1 /\ (islower(title[i - 1]) \/ isupper(title[i - 1]))
               /\ path.name = <<"m","y","-","s","k","i","l","l","-","n","a","m","e",".","m","d">> => title = <<"M","y"," ","S","k","i","l","l"," ","N","a","m","e">>
               /\ path.name = <<"R","E","A","D","m","e","-","x","1","y",".","m","d">> => title = <<"R","e","a","d","m","e"," ","X","1","Y">>
        /\ path.node = File(<<"#"," ","H","e","l","l","o"," ","W","o","r","l","d","\n","m","o","r","e"," ","t","e","x","t">>) => title = <<"H","e","l","l","o"," ","W","o","r","l","d">>

\* A file whose first heading is not its first line.
C10_Witness ==
    /\ pc = "titled"
    /\ HeadingLines(path.node) # {}
    /\ 1 \notin HeadingLines(path.node)
    /\ title # <<>>

(***************************************************************************)
(* build_index                                                             *)
(***************************************************************************)
SkillMd == <<"S","K","I","L","L",".","m","d">>
ReferencesName == <<"r","e","f","e","r","e","n","c","e","s">>
DocsName == <<"d","o","c","s">>
SkillsJson == <<"s","k","i","l","l","s",".","j","s","o","n">>

\* The list of line 60.
special_directories ==
    { <<"d","o","c","s">>, <<"s","c","r","i","p","t","s">>, <<"t","e","m","p","l","a","t","e">>, <<".","g","i","t">>, <<"_","_","p","y","c","a","c","h","e","_","_">> }

\* sorted(names), had the names been left in an order that is not theirs.
RECURSIVE sorted_descending(_)
sorted_descending(names) ==
    IF names = {} THEN <<>>
    ELSE LET m == CHOOSE x \in names : \A y \in names \ {x} : str_less(y, x)
         IN  <<m>> \o sorted_descending(names \ {m})

\* sorted(paths) for the paths of one directory, as names: Path orders the
\* paths of one directory as str orders their names.
RECURSIVE sorted(_)
sorted(names) ==
    IF names = {} THEN <<>>
    ELSE LET m == CHOOSE x \in names : \A y \in names \ {x} : str_less(x, y)
         IN  <<m>> \o sorted(names \ {m})

\* dir.glob("*.md"), had the pattern been "*".
glob_all(dir) == IF is_dir(dir) THEN DOMAIN dir.children ELSE {}

\* dir.glob("*.md"): the names in dir that end in .md, whatever they name;
\* nothing when dir is no directory.
glob_md(dir) ==
    IF is_dir(dir) THEN {n \in DOMAIN dir.children : endswith(n, <<".","m","d">>)} ELSE {}

\* Line 69, had the default been the empty str.
skill_name_no_default(frontmatter, dirname) == get(frontmatter, <<"n","a","m","e">>, <<>>)

\* Line 69.
skill_name(frontmatter, dirname) == get(frontmatter, <<"n","a","m","e">>, dirname)

\* Line 70.
skill_description(frontmatter) == strip(get(frontmatter, <<"d","e","s","c","r","i","p","t","i","o","n">>, <<>>))

\* Lines 73-82: the references of a skill directory.
collect_references(skill_dir) ==
    IF ~exists(skill_dir, ReferencesName) THEN <<>>
    ELSE LET references_dir == skill_dir.children[ReferencesName]
             refs == sorted(glob_md(references_dir))
         IN  [i \in 1..Len(refs) |->
                 [title |-> infer_title_from_markdown(refs[i],
                                                      references_dir.children[refs[i]]),
                  file |-> <<"r","e","f","e","r","e","n","c","e","s","/">> \o refs[i]]]

\* Lines 68 and 79 raise IsADirectoryError when SKILL.md, or a path the
\* glob gives, is a directory.
body_raises(skill_dir) ==
    \/ read_raises(skill_dir.children[SkillMd])
    \/ /\ exists(skill_dir, ReferencesName)
       /\ \E n \in glob_md(skill_dir.children[ReferencesName]) :
              read_raises(skill_dir.children[ReferencesName].children[n])

\* The guards of lines 58-65, had "template" been left out of the list.
is_skill_dir_template(root, name) ==
    /\ is_dir(root.children[name])
    /\ name \notin special_directories \ {<<"t","e","m","p","l","a","t","e">>}
    /\ exists(root.children[name], SkillMd)

\* The guards of lines 58-65: the entry is not skipped.
is_skill_dir(root, name) ==
    /\ is_dir(root.children[name])
    /\ name \notin special_directories
    /\ exists(root.children[name], SkillMd)

\* Lines 68-91: the record of a skill directory.
skill_record(root, name) ==
    LET skill_dir == root.children[name]
        frontmatter == parse_frontmatter(skill_dir.children[SkillMd].content).frontmatter
    IN  [name |-> skill_name(frontmatter, name),
         folder |-> name,
         description |-> skill_description(frontmatter),
         references |-> collect_references(skill_dir)]

(***************************************************************************)
(* json.dumps(skills, indent=2, ensure_ascii=False)                        *)
(***************************************************************************)
RECURSIVE json_escape(_)
json_escape(s) ==
    IF s = <<>> THEN <<>>
    ELSE (IF Head(s) = "\"" THEN <<"\\", "\"">>
          ELSE IF Head(s) = "\\" THEN <<"\\", "\\">>
          ELSE IF Head(s) = "\n" THEN <<"\\", "n">>
          ELSE IF Head(s) = "\r" THEN <<"\\", "r">>
          ELSE IF Head(s) = "\t" THEN <<"\\", "t">>
          ELSE <<Head(s)>>) \o json_escape(Tail(s))

json_str(s) == <<"\"">> \o json_escape(s) \o <<"\"">>

json_reference(r) ==
    <<" "," "," "," "," "," ","{","\n"," "," "," "," "," "," "," "," ","\"","t","i","t","l","e","\"",":"," ">> \o json_str(r.title)
        \o <<",","\n"," "," "," "," "," "," "," "," ","\"","f","i","l","e","\"",":"," ">> \o json_str(r.file)
        \o <<"\n"," "," "," "," "," "," ","}">>

json_references(refs) ==
    IF Len(refs) = 0 THEN <<"[","]">>
    ELSE <<"[","\n">> \o join(<<",","\n">>, [i \in 1..Len(refs) |-> json_reference(refs[i])])
             \o <<"\n"," "," "," "," ","]">>

json_skill(r) ==
    <<" "," ","{","\n"," "," "," "," ","\"","n","a","m","e","\"",":"," ">> \o json_str(r.name)
        \o <<",","\n"," "," "," "," ","\"","f","o","l","d","e","r","\"",":"," ">> \o json_str(r.folder)
        \o <<",","\n"," "," "," "," ","\"","d","e","s","c","r","i","p","t","i","o","n","\"",":"," ">> \o json_str(r.description)
        \o <<",","\n"," "," "," "," ","\"","r","e","f","e","r","e","n","c","e","s","\"",":"," ">> \o json_references(r.references)
        \o <<"\n"," "," ","}">>

json_dumps(list) ==
    IF Len(list) = 0 THEN <<"[","]">>
    ELSE <<"[","\n">> \o join(<<",","\n">>, [i \in 1..Len(list) |-> json_skill(list[i])])
             \o <<"\n","]">>

(***************************************************************************)
(* main                                                                    *)
(***************************************************************************)
\* path.write_text(data), had the file been opened for appending.
write_text_append(dir, name, data) ==
    Dir(setitem(dir.children, name,
                File((IF name \in DOMAIN dir.children
                      THEN dir.children[name].content ELSE <<>>) \o data)))

\* (dir / name).write_text(data): the file is created or replaced in full.
write_text(dir, name, data) == Dir(setitem(dir.children, name, File(data)))

\* (dir / name).mkdir(exist_ok=True) raises FileExistsError when the name is
\* taken by something that is no directory.
mkdir_raises(dir, name) == name \in DOMAIN dir.children /\ ~is_dir(dir.children[name])

mkdir(dir, name) ==
    IF name \in DOMAIN dir.children THEN dir
    ELSE Dir(setitem(dir.children, name, Dir(EmptyDict)))

\* Lines 99-103, and the call of line 106.
Main ==
    /\ pc = "idle"
    /\ IF mkdir_raises(fs, DocsName)
       THEN pc' = "raised" /\ UNCHANGED <<fs, caller>>
       ELSE /\ fs' = mkdir(fs, DocsName)
            /\ caller' = "main"
            /\ pc' = "build"
    /\ UNCHANGED <<text, parsed, path, title, entries, idx, skills, written>>

\* build_index(root) called by another program, before main ever ran.
BuildIndexCall ==
    /\ pc = "idle"
    /\ written = <<>>
    /\ caller' = "direct"
    /\ pc' = "build"
    /\ UNCHANGED <<text, parsed, path, title, fs, entries, idx, skills, written>>

\* Lines 53-56: the list is empty and the directory is listed, sorted.
BuildIndexList ==
    /\ pc = "build"
    /\ skills' = <<>>
    /\ entries' = sorted(DOMAIN fs.children)
    /\ idx' = 0
    /\ pc' = "loop"
    /\ UNCHANGED <<text, parsed, path, title, fs, caller, written>>

\* Lines 56-91: one turn of the loop, on entries[idx + 1].
BuildIndexLoop ==
    /\ pc = "loop"
    /\ idx < Len(entries)
    /\ LET name == entries[idx + 1]
       IN  IF ~is_skill_dir(fs, name)
           THEN idx' = idx + 1 /\ UNCHANGED <<skills, pc>>
           ELSE IF body_raises(fs.children[name])
           THEN pc' = "raised" /\ UNCHANGED <<skills, idx>>
           ELSE /\ skills' = Append(skills, skill_record(fs, name))
                /\ idx' = idx + 1
                /\ UNCHANGED pc
    /\ UNCHANGED <<text, parsed, path, title, fs, caller, entries, written>>

\* Line 93.
BuildIndexReturn ==
    /\ pc = "loop"
    /\ idx = Len(entries)
    /\ pc' = IF caller = "main" THEN "write" ELSE "returned"
    /\ UNCHANGED <<text, parsed, path, title, fs, caller, entries, idx, skills, written>>

\* Line 107; written records what docs/skills.json then holds.
MainWrite ==
    /\ pc = "write"
    /\ fs' = Dir(setitem(fs.children, DocsName,
                         write_text(fs.children[DocsName], SkillsJson, json_dumps(skills))))
    /\ written' = Append(written, fs'.children[DocsName].children[SkillsJson].content)
    /\ pc' = "done"
    /\ UNCHANGED <<text, parsed, path, title, caller, entries, idx, skills>>

\* The builder is run again on the file system the last run left.
Rerun ==
    /\ pc = "done"
    /\ Len(written) < MaxRuns
    /\ pc' = "idle"
    /\ UNCHANGED <<text, parsed, path, title, fs, caller, entries, idx, skills, written>>

Next ==
    \/ Main
    \/ BuildIndexCall
    \/ BuildIndexList
    \/ BuildIndexLoop
    \/ BuildIndexReturn
    \/ MainWrite
    \/ Rerun

(***************************************************************************)
(* The root directories build_index is run on: up to MaxEntries entries    *)
(* out of RootNames, each one of RootNodes.                                *)
(***************************************************************************)
AlphaSkill == <<"-","-","-","\n","n","a","m","e",":"," ","A","l","p","h","a","\n","d","e","s","c","r","i","p","t","i","o","n",":"," ","d","e","s","c","\n","-","-","-","\n","B","o","d","y">>
NoHeaderSkill == <<"#"," ","T","i","t","l","e"," ","o","n","l","y","\n">>
UnclosedSkill == <<"-","-","-","\n","n","a","m","e",":"," ","B","e","t","a","\n","d","e","s","c","r","i","p","t","i","o","n",":"," ","l","o","s","t","\n">>
PaddedSkill == <<"-","-","-","\n","d","e","s","c","r","i","p","t","i","o","n",":"," ","\""," ","p","a","d","d","e","d"," ","\"","\n","-","-","-","\n">>
EmptyNameSkill == <<"-","-","-","\n","n","a","m","e",":","\n","-","-","-","\n">>

OneMd == File(<<"#"," ","O","n","e","\n">>)
TwoMd == File(<<"n","o"," ","h","e","a","d","i","n","g","\n">>)

RootNodes ==
    { File(<<"x">>),
      Dir(EmptyDict),
      DirOf({ <<<<"R","E","A","D","M","E",".","m","d">>, File(<<"#"," ","R","e","a","d","m","e">>)>>,
              <<ReferencesName, DirOf({<<<<"o","n","e",".","m","d">>, OneMd>>})>> }),
      DirOf({ <<SkillMd, File(AlphaSkill)>>,
              <<ReferencesName, DirOf({<<<<"o","n","e",".","m","d">>, OneMd>>, <<<<"t","w","o",".","m","d">>, TwoMd>>})>> }),
      DirOf({ <<SkillMd, File(NoHeaderSkill)>> }),
      DirOf({ <<SkillMd, File(UnclosedSkill)>>, <<ReferencesName, Dir(EmptyDict)>> }),
      DirOf({ <<SkillMd, File(PaddedSkill)>>, <<ReferencesName, File(<<"x">>)>> }),
      DirOf({ <<SkillMd, File(EmptyNameSkill)>> }),
      DirOf({ <<SkillMd, Dir(EmptyDict)>> }) }

RootNames ==
    { <<"a">>, <<"B">>, <<"a","-","b">>,
      <<"d","o","c","s">>, <<"s","c","r","i","p","t","s">>, <<"t","e","m","p","l","a","t","e">>, <<".","g","i","t">>, <<"_","_","p","y","c","a","c","h","e","_","_">> }

Roots ==
    {Dir(f) : f \in UNION {[S -> RootNodes] :
                              S \in {T \in SUBSET RootNames : Cardinality(T) <= MaxEntries}}}

Init ==
    /\ pc = "idle"
    /\ fs \in Roots
    /\ caller = "direct"
    /\ entries = <<>>
    /\ idx = 0
    /\ skills = <<>>
    /\ written = <<>>
    /\ text = <<>>
    /\ parsed = NoParse
    /\ path = NoPath
    /\ title = <<>>

Spec == Init /\ [][Next]_vars

(***************************************************************************)
(* The skill directories whose references build_index collects: one skill  *)
(* directory with up to MaxRefs entries in references/, or with no         *)
(* references/ directory.                                                  *)
(***************************************************************************)
RefNodes ==
    { OneMd, TwoMd, File(<<"t","e","x","t","\n"," "," ","#"," "," ","T"," ","t"," "," ","\n","#"," ","l","a","t","e","r">>), Dangling,
      DirOf({<<<<"d","e","e","p",".","m","d">>, OneMd>>}) }

RefNames ==
    { <<"o","n","e",".","m","d">>, <<"t","w","o",".","m","d">>, <<"a","-","b",".","m","d">>, <<"a",".","m","d">>, <<"B",".","m","d">>, <<"n","o","t","e","s",".","t","x","t">>, <<"s","u","b">> }

ReferencesDirs ==
    {Dir(f) : f \in UNION {[S -> RefNodes] :
                              S \in {T \in SUBSET RefNames : Cardinality(T) <= MaxRefs}}}

RefRoots ==
    {DirOf({<<<<"a">>, DirOf({<<SkillMd, File(AlphaSkill)>>, <<ReferencesName, r>>})>>}) :
         r \in ReferencesDirs \cup {File(<<"x">>)}}
        \cup {DirOf({<<<<"a">>, DirOf({<<SkillMd, File(AlphaSkill)>>})>>})}

InitRefs ==
    /\ pc = "idle"
    /\ fs \in RefRoots
    /\ caller = "direct"
    /\ entries = <<>>
    /\ idx = 0
    /\ skills = <<>>
    /\ written = <<>>
    /\ text = <<>>
    /\ parsed = NoParse
    /\ path = NoPath
    /\ title = <<>>

SpecRefs == InitRefs /\ [][Next]_vars

(***************************************************************************)
(* Properties of build_index and main.                                     *)
(***************************************************************************)
\* a sorts before b: they agree up to a position where a ends, or where a
\* has the character of the lower code point.
LexLess(a, b) ==
    \E k \in 1..Len(b) :
        /\ k <= Len(a) + 1
        /\ \A j \in 1..(k - 1) : a[j] = b[j]
        /\ k = Len(a) + 1 \/ ord(a[k]) < ord(b[k])

\* The names build_index never takes for a package.
ReservedNames ==
    { <<"d","o","c","s">>, <<"s","c","r","i","p","t","s">>, <<"t","e","m","p","l","a","t","e">>, <<".","g","i","t">>, <<"_","_","p","y","c","a","c","h","e","_","_">> }

\* The entry is a directory, its name is not reserved, and SKILL.md is
\* directly inside it.
Qualifies(name) ==
    /\ fs.children[name].kind = "dir"
    /\ name \notin ReservedNames
    /\ SkillMd \in DOMAIN fs.children[name].children

Folders == {skills[i].folder : i \in 1..Len(skills)}

Scanning == pc \in {"loop", "write", "returned", "done", "raised"}
Returned == pc \in {"write", "returned", "done"}

\* C1: at every step of the scan, and after it, the records' folders are
\* exactly the visited entries that are directories, are not named docs,
\* scripts, template, .git or __pycache__, and directly contain SKILL.md,
\* one record each; other entries have no record.
C1_FoldersAreQualifyingDirs ==
    Scanning =>
        /\ idx <= Len(entries)
        /\ Folders = {entries[j] : j \in {j \in 1..idx : Qualifies(entries[j])}}
        /\ Len(skills) = Cardinality(Folders)
        /\ Returned =>
               Folders = {n \in DOMAIN fs.children : Qualifies(n)}

\* After the scan: a record beside a reserved directory that holds SKILL.md,
\* or beside a directory that holds markdown files but no SKILL.md.
C1_Witness ==
    /\ Returned
    /\ Len(skills) = 1
    /\ \E n \in DOMAIN fs.children :
           /\ fs.children[n].kind = "dir"
           /\ \/ n \in ReservedNames /\ SkillMd \in DOMAIN fs.children[n].children
              \/ /\ n \notin ReservedNames
                 /\ SkillMd \notin DOMAIN fs.children[n].children
                 /\ <<"R","E","A","D","M","E",".","m","d">> \in DOMAIN fs.children[n].children

\* The objects of the JSON array: the lines that open one at the first level.
JsonArrayLength(data) ==
    Cardinality({i \in 1..Len(Lines(data)) : Lines(data)[i] = <<" "," ","{">>})

\* C2: the returned list, and the array written to docs/skills.json, has as
\* many records as there are qualifying directories, in strictly increasing
\* lexicographic order of folder.
C2_SortedByFolder ==
    Returned =>
        /\ Len(skills) = Cardinality({n \in DOMAIN fs.children : Qualifies(n)})
        /\ \A i, j \in 1..Len(skills) :
               i < j => LexLess(skills[i].folder, skills[j].folder)
        /\ pc = "done" =>
               JsonArrayLength(written[Len(written)]) = Len(skills)

\* Two records written, an upper-case folder before a lower-case one.
C2_Witness ==
    /\ pc = "done"
    /\ Len(skills) = 2
    /\ isupper(skills[1].folder[1])
    /\ islower(skills[2].folder[1])

\* C3: a second run on the file system the first run left writes the same
\* docs/skills.json, character for character.
C3_RerunWritesTheSame ==
    \A i, j \in 1..Len(written) : written[i] = written[j]

\* Two runs, the first of which created docs/, with a record written.
C3_Witness ==
    /\ Len(written) = 2
    /\ Len(skills) >= 1
    /\ DOMAIN fs.children[DocsName].children = {SkillsJson}
    /\ fs.children[DocsName].children[SkillsJson].content = written[2]

\* The text of the SKILL.md of a record's folder.
SkillText(r) == fs.children[r.folder].children[SkillMd].content

\* C8: a record's name is the header's name, or the directory's name when
\* the header has none (also when the frontmatter is missing or unclosed);
\* its description is the header's description, trimmed, or the empty str.
C8_NameAndDescription ==
    \A i \in 1..Len(skills) :
        LET r == skills[i]
            fm == parse_frontmatter(SkillText(r)).frontmatter
        IN  /\ r.name = IF <<"n","a","m","e">> \in DOMAIN fm THEN fm[<<"n","a","m","e">>] ELSE r.folder
            /\ r.description =
                   IF <<"d","e","s","c","r","i","p","t","i","o","n">> \in DOMAIN fm THEN strip(fm[<<"d","e","s","c","r","i","p","t","i","o","n">>]) ELSE <<>>
            /\ ~SuccessBranch(SkillText(r)) => r.name = r.folder /\ r.description = <<>>
            /\ SkillText(r) = AlphaSkill => r.name = <<"A","l","p","h","a">> /\ r.description = <<"d","e","s","c">>
            /\ SkillText(r) = PaddedSkill => r.name = r.folder /\ r.description = <<"p","a","d","d","e","d">>

\* A record of a header with no name and a padded description, and one of
\* an unclosed header.
C8_Witness ==
    /\ Len(skills) = 2
    /\ \E i \in 1..2 : SkillText(skills[i]) = PaddedSkill
    /\ \E i \in 1..2 : SkillText(skills[i]) = UnclosedSkill

\* The names directly inside the references directory of a record's folder
\* that end in .md.
MdNames(r) ==
    LET d == fs.children[r.folder].children
    IN  IF ReferencesName \in DOMAIN d /\ d[ReferencesName].kind = "dir"
        THEN {n \in DOMAIN d[ReferencesName].children :
                  Len(n) >= 3 /\ SubSeq(n, Len(n) - 2, Len(n)) = <<".","m","d">>}
        ELSE {}

\* The file name of a reference entry: its file without references/.
RefName(e) == SubSeq(e.file, Len(<<"r","e","f","e","r","e","n","c","e","s","/">>) + 1, Len(e.file))

\* C9: a record's references are one entry for each *.md file directly in
\* the folder's references directory, and no other, in lexicographic order
\* of file name, each with file references/<name> and the title
\* infer_title_from_markdown gives that file; none when there is no
\* references directory.
C9_ReferencesOfRecord ==
    \A i \in 1..Len(skills) :
        LET r == skills[i]
            refs == r.references
        IN  /\ Len(refs) = Cardinality(MdNames(r))
            /\ {RefName(refs[k]) : k \in 1..Len(refs)} = MdNames(r)
            /\ \A k \in 1..Len(refs) :
                   /\ refs[k].file = <<"r","e","f","e","r","e","n","c","e","s","/">> \o RefName(refs[k])
                   /\ RefName(refs[k]) \in MdNames(r) =>
                          refs[k].title = infer_title_from_markdown(
                              RefName(refs[k]),
                              fs.children[r.folder].children[ReferencesName]
                                  .children[RefName(refs[k])])
            /\ \A k, l \in 1..Len(refs) :
                   k < l => LexLess(RefName(refs[k]), RefName(refs[l]))

\* A record with two references, a-b.md before a.md, beside an entry of
\* references/ that is no *.md file.
C9_Witness ==
    /\ Len(skills) = 1
    /\ Len(skills[1].references) = 2
    /\ skills[1].references[1].file = <<"r","e","f","e","r","e","n","c","e","s","/","a","-","b",".","m","d">>
    /\ skills[1].references[2].file = <<"r","e","f","e","r","e","n","c","e","s","/","a",".","m","d">>
    /\ Cardinality(DOMAIN fs.children[skills[1].folder].children[ReferencesName].children) = 3

====
